---------------------------- MODULE Spec2Model ----------------------------
(***************************************************************************)
(* A model of the AI-news pipeline:                                        *)
(*   fetch_ai_research.py    feed normalisation  (SpecFetch, SpecSummary)  *)
(*   analyze_ai_research.py  streamed analysis   (SpecAnalyze)             *)
(*                           driver + artifacts  (SpecReports)             *)
(*   visualize.py            report aggregation  (SpecReports)             *)
(* Texts that are only concatenated are TLA+ strings; texts whose          *)
(* characters are inspected (summaries, titles, file names) are sequences  *)
(* of one-character strings.                                               *)
(***************************************************************************)
EXTENDS Integers, Sequences, FiniteSets, TLC

VARIABLES
    \* ---- analyze_ai_research.py: analyze_item ----
    a_pc,            \* "streaming" | "returned" | "raised"
    stream,          \* the chunks (deltas) the completion has yielded so far
    is_answering,    \* local of analyze_item
    final_output,    \* local of analyze_item: list of content fragments
    console,         \* what analyze_item printed inside the loop, in order
    returned,        \* the return value of analyze_item (once a_pc = "returned")
    \* ---- fetch_ai_research.py: one feed entry through fetch_rss_source ----
    s_pc,            \* "entry" | "done"
    s_entry,         \* the feed entry being normalised
    s_item,          \* the record built from it (lines 135-143)
    \* ---- fetch_ai_research.py: fetch_all_sources and main ----
    f_pc,            \* "fetching" | "main" | "exit"
    SOURCES,         \* the source descriptor table
    f_i,             \* position of "for src in SOURCES"
    feeds,           \* what each source visited so far answered
    all_items,       \* local of fetch_all_sources, then "items" of main
    f_log,           \* the lines printed by fetch_rss_source / fetch_all_sources
    f_snapshot,      \* ai_research_feed.json as written by save_to_json
    f_exit,          \* process exit status: "running" | "success" | "failure"
    \* ---- analyze_ai_research.py main, save_report; visualize.py ----
    r_snapshot,      \* ai_research_feed.json as the two programs find it
    store,           \* the files of analysis_reports/, by path
    d_pc,            \* analysis main: "start" | "loop" | "done" | "crashed"
    d_i,             \* position of "for i, item in enumerate(items, start=1)"
    d_failed,        \* positions whose analyze_item raised
    d_saved,         \* positions whose save_report ran
    d_exit,          \* exit status of the analysis program
    v_pc,            \* visualize main: "idle" | "rendered" | "crashed"
    enriched,        \* items_with_analysis of visualize main
    v_exit           \* exit status of the visualize program

avars == <<a_pc, stream, is_answering, final_output, console, returned>>
svars == <<s_pc, s_entry, s_item>>
fvars == <<f_pc, SOURCES, f_i, feeds, all_items, f_log, f_snapshot, f_exit>>

rvars == <<r_snapshot, store, d_pc, d_i, d_failed, d_saved, d_exit,
           v_pc, enriched, v_exit>>

vars == <<avars, svars, fvars, rvars>>

-----------------------------------------------------------------------------
(***************************************************************************)
(* analyze_item: the streamed response                                     *)
(***************************************************************************)

\* Bound: the number of chunks one response stream carries.
MaxChunks == 4

ReasoningTexts == {"", "a", "b"}
ContentTexts   == {"", "X", "Y"}

\* A delta is an object that may or may not have each of the two attributes.
Deltas ==
    {[x \in {} |-> ""]}
      \cup [{"reasoning_content"} -> ReasoningTexts]
      \cup [{"content"} -> ContentTexts]
      \cup [reasoning_content : ReasoningTexts, content : ContentTexts]

\* hasattr(delta, name) and delta.<name>  (an empty string is falsy)
HasText(delta, name) == name \in DOMAIN delta /\ delta[name] # ""

\* "".join(parts)
RECURSIVE Join(_)
Join(parts) ==
    IF parts = <<>> THEN "" ELSE Head(parts) \o Join(Tail(parts))

\* The reasoning branch as it would be without "if not is_answering".
ReasoningPrintsDropGuard(delta, answering) ==
    IF HasText(delta, "reasoning_content")
    THEN <<[kind |-> "reasoning", text |-> delta.reasoning_content]>>
    ELSE <<>>

\* The prints of the reasoning branch (lines 49-51).
ReasoningPrints(delta, answering) ==
    IF HasText(delta, "reasoning_content") /\ ~answering
    THEN <<[kind |-> "reasoning", text |-> delta.reasoning_content]>>
    ELSE <<>>

\* The prints of the content branch (lines 54-59).
ContentPrints(delta, answering) ==
    IF HasText(delta, "content")
    THEN (IF ~answering THEN <<[kind |-> "banner", text |-> "final report"]>>
                        ELSE <<>>)
         \o <<[kind |-> "content", text |-> delta.content]>>
    ELSE <<>>

\* final_output as it would be if reasoning fragments were appended too.
AppendFinalAlsoReasoning(delta, out) ==
    LET o1 == IF HasText(delta, "reasoning_content")
              THEN Append(out, delta.reasoning_content) ELSE out
    IN  IF HasText(delta, "content") THEN Append(o1, delta.content) ELSE o1

\* final_output after the content branch (line 60).
AppendFinal(delta, out) ==
    IF HasText(delta, "content") THEN Append(out, delta.content) ELSE out

AInit ==
    /\ a_pc = "streaming"
    /\ stream = <<>>
    /\ is_answering = FALSE
    /\ final_output = <<>>
    /\ console = <<>>
    /\ returned = ""

\* One iteration of "for chunk in completion" (lines 45-60).
NextChunk ==
    /\ a_pc = "streaming"
    /\ Len(stream) < MaxChunks
    /\ \E delta \in Deltas :
         /\ stream' = Append(stream, delta)
         /\ console' = console \o ReasoningPrints(delta, is_answering)
                               \o ContentPrints(delta, is_answering)
         /\ is_answering' = (is_answering \/ HasText(delta, "content"))
         /\ final_output' = AppendFinal(delta, final_output)
    /\ UNCHANGED <<a_pc, returned>>
    /\ UNCHANGED <<svars, fvars, rvars>>

\* The stream ends: lines 62-64.
StreamEnd ==
    /\ a_pc = "streaming"
    /\ a_pc' = "returned"
    /\ returned' = Join(final_output)
    /\ UNCHANGED <<stream, is_answering, final_output, console>>
    /\ UNCHANGED <<svars, fvars, rvars>>

\* The request or the iteration raises (transport, auth, quota): nothing in
\* analyze_item catches it, so it leaves the function without a return value.
StreamRaises ==
    /\ a_pc = "streaming"
    /\ a_pc' = "raised"
    /\ UNCHANGED <<stream, is_answering, final_output, console, returned>>
    /\ UNCHANGED <<svars, fvars, rvars>>

-----------------------------------------------------------------------------
(***************************************************************************)
(* fetch_rss_source: one entry to one record                               *)
(***************************************************************************)

\* Program constant: the summary length cap (fetch_ai_research.py:132-133).
SummaryCap == 400

\* Bound: the length of the markup placed around the filler of a raw summary.
MaxAffix == 3

Ellipsis == <<".", ".", ".">>

\* The characters summaries are made of: a letter, three kinds of
\* whitespace, and the two tag delimiters.
Chars == {"a", " ", "\n", "<", ">"}

\* \s of the regular expression, and what str.strip() removes
IsSpace(c) == c \in {" ", "\n", "\t"}

\* The first position from i on whose character is in C, or 0: how far a
\* scan from i runs before it meets such a character.
NextAt(s, i, C) ==
    LET P == {j \in i..Len(s) : s[j] \in C}
    IN  IF P = {} THEN 0 ELSE CHOOSE x \in P : \A y \in P : x <= y

\* re.sub(r"<[^>]+>", " ", text) from position i on (line 78): the scan
\* copies text up to the next "<"; a match there runs to the first ">" after
\* it and needs one character in between; with no match the "<" is copied
\* and the scan resumes behind it. Matches do not overlap.
RECURSIVE SubTags(_, _, _)
SubTags(s, i, acc) ==
    LET p == NextAt(s, i, {"<"})
        j == IF p = 0 THEN 0 ELSE NextAt(s, p + 1, {">"})
    IN  IF p = 0 THEN acc \o SubSeq(s, i, Len(s))
        ELSE IF j >= p + 2
             THEN SubTags(s, j + 1, acc \o SubSeq(s, i, p - 1) \o <<" ">>)
             ELSE SubTags(s, p + 1, acc \o SubSeq(s, i, p))

\* The first position from i on that holds no whitespace (Len(s) + 1 if none)
RECURSIVE EndOfSpaces(_, _)
EndOfSpaces(s, i) ==
    IF i <= Len(s) /\ IsSpace(s[i]) THEN EndOfSpaces(s, i + 1) ELSE i

\* re.sub(r"\s+", " ", text) from position i on (line 80): each maximal run
\* of whitespace becomes one space.
RECURSIVE SubSpaces(_, _, _)
SubSpaces(s, i, acc) ==
    LET p == NextAt(s, i, {" ", "\n", "\t"})
    IN  IF p = 0 THEN acc \o SubSeq(s, i, Len(s))
        ELSE SubSpaces(s, EndOfSpaces(s, p),
                       acc \o SubSeq(s, i, p - 1) \o <<" ">>)

RECURSIVE LeadingSpaces(_, _)
LeadingSpaces(s, i) ==
    IF i <= Len(s) /\ IsSpace(s[i]) THEN LeadingSpaces(s, i + 1) ELSE i - 1

RECURSIVE TrailingSpaces(_, _)
TrailingSpaces(s, i) ==
    IF i >= 1 /\ IsSpace(s[i]) THEN TrailingSpaces(s, i - 1) ELSE Len(s) - i

\* str.strip()
Strip(s) ==
    LET lead == LeadingSpaces(s, 1)
    IN  IF lead = Len(s) THEN <<>>
        ELSE SubSeq(s, lead + 1, Len(s) - TrailingSpaces(s, Len(s)))

\* strip_html (lines 73-81)
strip_html(text) ==
    IF text = <<>> THEN <<>>
    ELSE Strip(SubSpaces(SubTags(text, 1, <<>>), 1, <<>>))

\* The cap as it would be with ">=" written for ">"
CapSummaryOffByOne(summary) ==
    IF Len(summary) >= SummaryCap
    THEN SubSeq(summary, 1, SummaryCap) \o Ellipsis
    ELSE summary

\* if len(summary) > 400: summary = summary[:400] + "..."
CapSummary(summary) ==
    IF Len(summary) > SummaryCap
    THEN SubSeq(summary, 1, SummaryCap) \o Ellipsis
    ELSE summary

\* entry.get(key) or ...: a missing key and an empty text are both falsy
Truthy(entry, key) == key \in DOMAIN entry /\ entry[key] # <<>>

\* raw_summary = entry.get("summary") or entry.get("description") or ""
RawSummary(entry) ==
    IF Truthy(entry, "summary") THEN entry.summary
    ELSE IF Truthy(entry, "description") THEN entry.description
    ELSE <<>>

\* entry.get("title", "").strip()
EntryTitle(entry) ==
    IF "title" \in DOMAIN entry THEN Strip(entry.title) ELSE <<>>

\* source.get("category", "unknown")
SourceCategory(source) ==
    IF "category" \in DOMAIN source THEN source.category ELSE "unknown"

\* The record of lines 135-143 (link and published carry no claim and are
\* left out).
ItemOf(source, entry) ==
    [source_id   |-> source.id,
     source_name |-> source.name,
     category    |-> SourceCategory(source),
     title       |-> EntryTitle(entry),
     summary     |-> CapSummary(strip_html(RawSummary(entry)))]

\* ---- the entries SpecSummary feeds through ----

Fill(n) == [k \in 1..n |-> "a"]

AffixTexts == UNION {[1..n -> Chars] : n \in 0..MaxAffix}

\* Filler lengths that put the cleaned text on either side of the cap.
FillLens == {0} \cup ((SummaryCap - MaxAffix)..(SummaryCap + 1))

\* Raw texts: a run of letters with a piece of markup split around it.
RawTexts ==
    {SubSeq(w, 1, k) \o Fill(n) \o SubSeq(w, k + 1, Len(w)) :
        <<w, k, n>> \in {t \in AffixTexts \X (0..MaxAffix) \X FillLens :
                            t[2] <= Len(t[1])}}

TheSource == [id |-> "src1", name |-> "Source 1", type |-> "rss", category |-> "arxiv"]

SampleEntries ==
    {[title |-> <<" ", "a", " ">>, summary |-> r] : r \in RawTexts}
      \cup {[title |-> <<"a">>, description |-> r] : r \in RawTexts}
      \cup {[title |-> <<"a">>, summary |-> <<>>, description |-> <<"<", "a", ">", "a">>],
            [link |-> <<"a">>]}

NoItem == [source_id |-> "", source_name |-> "", category |-> "",
           title |-> <<>>, summary |-> <<>>]

SInit ==
    /\ s_pc = "entry"
    /\ s_entry \in SampleEntries
    /\ s_item = NoItem

SIdle ==
    /\ s_pc = "done"
    /\ s_entry = [link |-> <<"a">>]
    /\ s_item = NoItem

\* One iteration of "for entry in entries" (lines 121-144).
Normalise ==
    /\ s_pc = "entry"
    /\ s_item' = ItemOf(TheSource, s_entry)
    /\ s_pc' = "done"
    /\ UNCHANGED s_entry
    /\ UNCHANGED <<avars, fvars, rvars>>

-----------------------------------------------------------------------------
(***************************************************************************)
(* fetch_rss_source per source, fetch_all_sources, main (fetch)            *)
(***************************************************************************)

\* Program constant: the default of source.get("max_items", 5).
DefaultMaxItems == 5

\* Bounds: descriptors in the table, the largest explicit max_items, and the
\* size of an ordinary feed.
NumSources == 3
MaxLimit == 1
MaxEntries == 2

\* A descriptor has id, name and type; max_items is optional. The table of
\* lines 24-68 is five "rss" descriptors with max_items 5; the loop of
\* fetch_all_sources is written for any table.
DescriptorsAt(k) ==
    {[id |-> k, name |-> k, type |-> "html"]}
      \cup {[id |-> k, name |-> k, type |-> "rss"]}
      \cup {[id |-> k, name |-> k, type |-> "rss", max_items |-> m] :
                m \in 1..MaxLimit}

\* Feed sizes: up to MaxEntries, and one feed longer than the default limit.
FeedSizes == (0..MaxEntries) \cup {DefaultMaxItems + 1}

\* Entry k of a feed, in the feed's native order.
EntryAt(k) ==
    [title   |-> Fill(k) \o <<" ">>,
     summary |-> <<"<", "a", ">">> \o Fill(k)]

\* What feedparser.parse answers: it raises, or it returns a feed; a feed
\* it flags as bozo is empty or, its content still usable, holds one entry.
Answers ==
    {[kind |-> "raise"]}
      \cup {[kind |-> "feed", bozo |-> FALSE, entries |-> [k \in 1..n |-> EntryAt(k)]] :
                n \in FeedSizes}
      \cup {[kind |-> "feed", bozo |-> TRUE, entries |-> [k \in 1..n |-> EntryAt(k)]] :
                n \in {0, 1}}

Skipped == [kind |-> "skipped"]

\* source.get("max_items", 5)
ItemLimit(source) ==
    IF "max_items" \in DOMAIN source THEN source.max_items ELSE DefaultMaxItems

Min(a, b) == IF a <= b THEN a ELSE b

\* The entries as they would be without the slice
EntriesUncapped(source, feed) == feed.entries

\* entries = feed.entries[: source.get("max_items", 5)]   (line 118)
Entries(source, feed) ==
    SubSeq(feed.entries, 1, Min(ItemLimit(source), Len(feed.entries)))

\* The list fetch_rss_source returns (lines 118-147).
fetch_rss_source(source, feed) ==
    LET entries == Entries(source, feed)
    IN  [k \in 1..Len(entries) |-> ItemOf(source, entries[k])]

\* The lines fetch_rss_source prints (111, 116, 146).
FetchLines(source, feed) ==
    <<[tag |-> "fetching", id |-> source.id]>>
      \o (IF feed.bozo THEN <<[tag |-> "warning", id |-> source.id]>> ELSE <<>>)
      \o <<[tag |-> "got", id |-> source.id]>>

NoSnapshot == [written |-> FALSE, count |-> 0, items |-> <<>>]

FInit ==
    /\ f_pc = "fetching"
    /\ SOURCES \in {t \in [1..NumSources -> UNION {DescriptorsAt(k) : k \in 1..NumSources}] :
                      \A k \in 1..NumSources : t[k] \in DescriptorsAt(k)}
    /\ f_i = 1
    /\ feeds = <<>>
    /\ all_items = <<>>
    /\ f_log = <<>>
    /\ f_snapshot = NoSnapshot
    /\ f_exit = "running"

\* Where the loop stands after an iteration: the next source, or the return.
AfterSource == IF f_i = Len(SOURCES) THEN "main" ELSE "fetching"

\* The loop as it would be if the except branch ended it
LoopAfterErrorAbort == <<Len(SOURCES) + 1, "main">>

\* After the except branch (line 159) the for loop goes on with the next
\* source: <<next position, next pc>>.
LoopAfterError == <<f_i + 1, AfterSource>>

\* An iteration whose fetch_rss_source returns (lines 154-157).
FetchReturns ==
    /\ f_pc = "fetching"
    /\ SOURCES[f_i].type = "rss"
    /\ \E feed \in Answers :
         /\ feed.kind = "feed"
         /\ feeds' = Append(feeds, feed)
         /\ all_items' = all_items \o fetch_rss_source(SOURCES[f_i], feed)
         /\ f_log' = f_log \o FetchLines(SOURCES[f_i], feed)
    /\ f_i' = f_i + 1
    /\ f_pc' = AfterSource
    /\ UNCHANGED <<SOURCES, f_snapshot, f_exit>>
    /\ UNCHANGED <<avars, svars, rvars>>

\* An iteration whose fetch_rss_source raises (lines 154-159): the items of
\* that call are lost with its frame, the error line is printed.
FetchRaises ==
    /\ f_pc = "fetching"
    /\ SOURCES[f_i].type = "rss"
    /\ feeds' = Append(feeds, [kind |-> "raise"])
    /\ f_log' = f_log \o <<[tag |-> "fetching", id |-> SOURCES[f_i].id],
                           [tag |-> "error", id |-> SOURCES[f_i].id]>>
    /\ f_i' = LoopAfterError[1]
    /\ f_pc' = LoopAfterError[2]
    /\ UNCHANGED <<SOURCES, all_items, f_snapshot, f_exit>>
    /\ UNCHANGED <<avars, svars, rvars>>

\* An iteration over a descriptor of another type (lines 160-162).
FetchUnsupported ==
    /\ f_pc = "fetching"
    /\ SOURCES[f_i].type # "rss"
    /\ feeds' = Append(feeds, Skipped)
    /\ f_log' = Append(f_log, [tag |-> "unsupported", id |-> SOURCES[f_i].id])
    /\ f_i' = f_i + 1
    /\ f_pc' = AfterSource
    /\ UNCHANGED <<SOURCES, all_items, f_snapshot, f_exit>>
    /\ UNCHANGED <<avars, svars, rvars>>

\* main, "if not items" (lines 203-205): a message and a plain return, so the
\* interpreter ends with status 0 and no snapshot is written.
MainNoItems ==
    /\ f_pc = "main"
    /\ all_items = <<>>
    /\ f_log' = Append(f_log, [tag |-> "no_items", id |-> 0])
    /\ f_pc' = "exit"
    /\ f_exit' = "success"
    /\ UNCHANGED <<SOURCES, f_i, feeds, all_items, f_snapshot>>
    /\ UNCHANGED <<avars, svars, rvars>>

\* main, lines 207-208: print_human_readable and save_to_json.
MainSave ==
    /\ f_pc = "main"
    /\ all_items # <<>>
    /\ f_snapshot' = [written |-> TRUE, count |-> Len(all_items), items |-> all_items]
    /\ f_log' = Append(f_log, [tag |-> "saved", id |-> Len(all_items)])
    /\ f_pc' = "exit"
    /\ f_exit' = "success"
    /\ UNCHANGED <<SOURCES, f_i, feeds, all_items>>
    /\ UNCHANGED <<avars, svars, rvars>>

-----------------------------------------------------------------------------
(***************************************************************************)
(* analyze_ai_research.py: main, save_report                               *)
(* visualize.py: load_analysis_content, enrich_items_with_analysis, main   *)
(***************************************************************************)

\* Program constant: the slice safe_title[:60] (analyze_ai_research.py:110).
SlugLen == 60

\* Bounds: records in a snapshot, and the characters of a title that follow
\* its run of letters.
MaxRecords == 2
MaxTail == 2

\* OUTPUT_DIR (analyze_ai_research.py:10) and ANALYSIS_DIR (visualize.py:11)
OUTPUT_DIR == "analysis_reports"
ANALYSIS_DIR == "analysis_reports"

Extension == <<".", "m", "d">>

\* The fixed "no analysis report yet" paragraph of visualize.py:50.
Placeholder == "<p>no analysis yet</p>"

\* The characters titles are made of.
TitleChars == {"a", " ", ":", "/"}

\* c.isalnum()
IsAlnum(c) == c \in {"a", "b", "0", "1"}

\* c.isalnum() or c in (" ", "_", "-")
Kept(c) == IsAlnum(c) \/ c \in {" ", "_", "-"}

\* [c for c in title if keep(c)], position by position
RECURSIVE KeepChars(_, _, _)
KeepChars(s, i, acc) ==
    LET bad == {j \in i..Len(s) : ~Kept(s[j])}
        p   == IF bad = {} THEN 0 ELSE CHOOSE x \in bad : \A y \in bad : x <= y
    IN  IF p = 0 THEN acc \o SubSeq(s, i, Len(s))
        ELSE KeepChars(s, p + 1, acc \o SubSeq(s, i, p - 1))

\* s[:n]
Prefix(s, n) == SubSeq(s, 1, Min(n, Len(s)))

\* safe_title of line 109
SafeTitle(title) == Strip(KeepChars(title, 1, <<>>))

\* filepath of save_report (lines 109-110)
WriterPath(title) ==
    <<OUTPUT_DIR, Prefix(SafeTitle(title), SlugLen) \o Extension>>

\* title.replace("/", "_")
ReplaceSlash(title) ==
    [k \in 1..Len(title) |-> IF title[k] = "/" THEN "_" ELSE title[k]]

\* path of load_analysis_content (lines 41-42)
ReaderPath(title) == <<ANALYSIS_DIR, ReplaceSlash(title) \o Extension>>

\* open(filepath, "w") ... f.write(report): the file is created or replaced.
\* record_title is not in the file: it records which record the text is of.
WriteFile(files, path, title, report) ==
    [p \in (DOMAIN files) \cup {path} |->
        IF p = path THEN [record_title |-> title, report_text |-> report]
        ELSE files[p]]

\* save_report(item, report): the artifact directory afterwards
save_report(files, item, report) ==
    WriteFile(files, WriterPath(item.title), item.title, report)

\* markdown.markdown(md_text) for a one-paragraph text
Markdown(md_text) == "<p>" \o md_text \o "</p>"

\* load_analysis_content(title) (lines 39-50)
load_analysis_content(files, title) ==
    IF ReaderPath(title) \in DOMAIN files
    THEN Markdown(files[ReaderPath(title)].report_text)
    ELSE Placeholder

\* enrich_items_with_analysis(items) (lines 53-62)
enrich_items_with_analysis(files, items) ==
    [k \in 1..Len(items) |->
        [title    |-> items[k].title,
         link     |-> items[k].link,
         analysis |-> load_analysis_content(files, items[k].title)]]

\* The text the generation service returns for record k.
ReportOf(k) == "R" \o ToString(k)

\* ---- the snapshots and artifact directories the stage is run on ----

TitleTails == UNION {[1..n -> TitleChars] : n \in 0..MaxTail}

\* Titles as fetch_rss_source stores them (stripped): a run of letters, one
\* letter or as long as the slug, then a short tail.
Titles ==
    {t \in {Fill(n) \o w : n \in {1, SlugLen}, w \in TitleTails} : Strip(t) = t}

RecordOf(t) == [title |-> t, link |-> <<"u">>]

Snapshots ==
    {[exists |-> FALSE, items |-> <<>>]}
      \cup {[exists |-> TRUE, items |-> [k \in 1..Len(f) |-> RecordOf(f[k])]] :
                f \in UNION {[1..m -> Titles] : m \in 0..MaxRecords}}

EmptyDir == [p \in {} |-> [record_title |-> <<>>, report_text |-> ""]]

\* The artifact directory before the run: empty, or holding the artifact an
\* earlier run saved for a record of an earlier snapshot.
EarlierDirs ==
    {EmptyDir} \cup {save_report(EmptyDir, RecordOf(t), "R0") : t \in Titles}

RInit ==
    /\ r_snapshot \in Snapshots
    /\ store \in EarlierDirs
    /\ d_pc = "start"
    /\ d_i = 1
    /\ d_failed = {}
    /\ d_saved = {}
    /\ d_exit = "running"
    /\ v_pc = "idle"
    /\ enriched = <<>>
    /\ v_exit = "running"

RIdle ==
    /\ r_snapshot = [exists |-> FALSE, items |-> <<>>]
    /\ store = EmptyDir
    /\ d_pc = "crashed"
    /\ d_i = 1
    /\ d_failed = {}
    /\ d_saved = {}
    /\ d_exit = "failure"
    /\ v_pc = "crashed"
    /\ enriched = <<>>
    /\ v_exit = "failure"

items == r_snapshot.items

\* main of analyze_ai_research.py, lines 120-124: the snapshot is read.
DriverStart ==
    /\ d_pc = "start" /\ v_pc = "idle"
    /\ r_snapshot.exists
    /\ d_pc' = IF items = <<>> THEN "done" ELSE "loop"
    /\ d_exit' = IF items = <<>> THEN "success" ELSE "running"
    /\ UNCHANGED <<r_snapshot, store, d_i, d_failed, d_saved, v_pc, enriched, v_exit>>
    /\ UNCHANGED <<avars, svars, fvars>>

\* open(INPUT_JSON) raises FileNotFoundError, which main does not catch.
DriverNoSnapshot ==
    /\ d_pc = "start" /\ v_pc = "idle"
    /\ ~r_snapshot.exists
    /\ d_pc' = "crashed"
    /\ d_exit' = "failure"
    /\ UNCHANGED <<r_snapshot, store, d_i, d_failed, d_saved, v_pc, enriched, v_exit>>
    /\ UNCHANGED <<avars, svars, fvars>>

\* One iteration of the loop of lines 126-134 in which analyze_item returns.
AnalyzeAndSave ==
    /\ d_pc = "loop" /\ v_pc = "idle"
    /\ store' = save_report(store, items[d_i], ReportOf(d_i))
    /\ d_saved' = d_saved \cup {d_i}
    /\ d_i' = d_i + 1
    /\ d_pc' = IF d_i = Len(items) THEN "done" ELSE "loop"
    /\ d_exit' = IF d_i = Len(items) THEN "success" ELSE "running"
    /\ UNCHANGED <<r_snapshot, d_failed, v_pc, enriched, v_exit>>
    /\ UNCHANGED <<avars, svars, fvars>>

\* An iteration in which analyze_item raises: the loop body has no try, so
\* the exception leaves main and the interpreter exits with a traceback.
AnalyzeRaises ==
    /\ d_pc = "loop" /\ v_pc = "idle"
    /\ d_failed' = d_failed \cup {d_i}
    /\ d_pc' = "crashed"
    /\ d_exit' = "failure"
    /\ UNCHANGED <<r_snapshot, store, d_i, d_saved, v_pc, enriched, v_exit>>
    /\ UNCHANGED <<avars, svars, fvars>>

\* The analysis program is not running.
DriverAtRest == d_pc \in {"start", "done", "crashed"}

\* main of visualize.py, lines 85-102, with the snapshot present.
VisualizeRenders ==
    /\ v_pc = "idle" /\ DriverAtRest
    /\ r_snapshot.exists
    /\ enriched' = enrich_items_with_analysis(store, items)
    /\ v_pc' = "rendered"
    /\ v_exit' = "success"
    /\ UNCHANGED <<r_snapshot, store, d_pc, d_i, d_failed, d_saved, d_exit>>
    /\ UNCHANGED <<avars, svars, fvars>>

\* main of visualize.py with the snapshot missing: open raises, uncaught.
VisualizeNoSnapshot ==
    /\ v_pc = "idle" /\ DriverAtRest
    /\ ~r_snapshot.exists
    /\ v_pc' = "crashed"
    /\ v_exit' = "failure"
    /\ UNCHANGED <<r_snapshot, store, d_pc, d_i, d_failed, d_saved, d_exit, enriched>>
    /\ UNCHANGED <<avars, svars, fvars>>

-----------------------------------------------------------------------------
AIdle ==
    /\ a_pc = "returned"
    /\ stream = <<>>
    /\ is_answering = FALSE
    /\ final_output = <<>>
    /\ console = <<>>
    /\ returned = ""

FIdle ==
    /\ f_pc = "exit"
    /\ SOURCES = <<>>
    /\ f_i = 1
    /\ feeds = <<>>
    /\ all_items = <<>>
    /\ f_log = <<>>
    /\ f_snapshot = NoSnapshot
    /\ f_exit = "success"

ANext == NextChunk \/ StreamEnd \/ StreamRaises

InitAnalyze == AInit /\ SIdle /\ FIdle /\ RIdle

SpecAnalyze == InitAnalyze /\ [][ANext]_vars

SNext == Normalise

InitSummary == SInit /\ AIdle /\ FIdle /\ RIdle

SpecSummary == InitSummary /\ [][SNext]_vars

FNext ==
    FetchReturns \/ FetchRaises \/ FetchUnsupported \/ MainNoItems \/ MainSave

InitFetch == FInit /\ AIdle /\ SIdle /\ RIdle

SpecFetch == InitFetch /\ [][FNext]_vars

RNext ==
    \/ DriverStart \/ DriverNoSnapshot \/ AnalyzeAndSave \/ AnalyzeRaises
    \/ VisualizeRenders \/ VisualizeNoSnapshot

InitReports == RInit /\ AIdle /\ SIdle /\ FIdle

SpecReports == InitReports /\ [][RNext]_vars

\* ---- the stream as a whole, read off the chunk history ----

\* Chunk i carries a non-empty final-answer fragment.
FinalAt(i) == HasText(stream[i], "content")

\* Chunk i carries a non-empty reasoning fragment.
ReasoningAt(i) == HasText(stream[i], "reasoning_content")

\* The reasoning fragments the console shows, concatenated in print order.
RECURSIVE SurfacedOf(_)
SurfacedOf(out) ==
    IF out = <<>> THEN ""
    ELSE (IF Head(out).kind = "reasoning" THEN Head(out).text ELSE "")
         \o SurfacedOf(Tail(out))

SurfacedReasoning == SurfacedOf(console)

\* The reasoning fragments of chunks 1..n that no earlier chunk's final-answer
\* fragment precedes, concatenated in arrival order.
RECURSIVE ReasoningBeforeAnswer(_)
ReasoningBeforeAnswer(n) ==
    IF n = 0 THEN ""
    ELSE ReasoningBeforeAnswer(n - 1)
         \o (IF ReasoningAt(n) /\ ~(\E j \in 1..(n - 1) : FinalAt(j))
             THEN stream[n].reasoning_content ELSE "")

\* The final-answer fragments of chunks 1..n, concatenated in arrival order.
RECURSIVE FinalsUpTo(_)
FinalsUpTo(n) ==
    IF n = 0 THEN ""
    ELSE FinalsUpTo(n - 1)
         \o (IF "content" \in DOMAIN stream[n] THEN stream[n].content ELSE "")

\* C1: the request is ANSWERING exactly when some chunk so far carried a
\* non-empty final-answer fragment (so it starts THINKING and never moves
\* back), and the reasoning shown on the side channel is exactly the
\* reasoning of the chunks that no earlier chunk's final-answer fragment
\* precedes: a reasoning fragment arriving in a later chunk is not surfaced.
C1_ReasoningOnlyWhileThinking ==
    /\ is_answering = (\E j \in 1..Len(stream) : FinalAt(j))
    /\ SurfacedReasoning = ReasoningBeforeAnswer(Len(stream))
    /\ \A i \in 1..Len(console) :
         console[i].kind = "reasoning" =>
            ~(\E k \in 1..(i - 1) : console[k].kind = "content")

\* [reasoning a, reasoning b, final X, reasoning a]: "ab" is surfaced, the
\* late fragment is not.
C1_Witness ==
    /\ a_pc = "returned"
    /\ Len(stream) = 4
    /\ ReasoningAt(1) /\ ReasoningAt(2) /\ FinalAt(3) /\ ReasoningAt(4)
    /\ ~FinalAt(1) /\ ~FinalAt(2)
    /\ SurfacedReasoning = "ab"

\* C2: the text analyze_item returns is the concatenation, in arrival order,
\* of the final-answer fragments of the stream, whatever reasoning fragments
\* the stream carries and whatever was printed.
C2_ReturnsFinalFragments ==
    /\ Join(final_output) = FinalsUpTo(Len(stream))
    /\ a_pc = "returned" => returned = FinalsUpTo(Len(stream))

\* [reasoning, final X, reasoning, final Y] returns "XY".
C2_Witness ==
    /\ a_pc = "returned"
    /\ Len(stream) = 4
    /\ ReasoningAt(1) /\ FinalAt(2) /\ ReasoningAt(3) /\ FinalAt(4)
    /\ returned = "XY"

\* ---- fetch_all_sources as a whole, read off the answers so far ----

\* What source k contributed: the list its fetch_rss_source returned, or
\* nothing when it raised or was skipped.
Contribution(k) ==
    IF feeds[k].kind = "feed" THEN fetch_rss_source(SOURCES[k], feeds[k]) ELSE <<>>

RECURSIVE ContributionsUpTo(_)
ContributionsUpTo(n) ==
    IF n = 0 THEN <<>> ELSE ContributionsUpTo(n - 1) \o Contribution(n)

ErrorLines(id) ==
    {j \in 1..Len(f_log) : f_log[j].tag = "error" /\ f_log[j].id = id}

\* fetch_all_sources has returned.
Fetched == f_pc \in {"main", "exit"}

\* C3: a source whose retrieval raises contributes no record and does not
\* abort the run: when fetch_all_sources returns, every source of the table
\* has been visited, each raising source has exactly one error line (and no
\* other source has one), and the record set is the concatenation, in table
\* order, of what the sources that returned gave.
C3_FailureIsolation ==
    /\ all_items = ContributionsUpTo(Len(feeds))
    /\ \A k \in 1..Len(feeds) :
         Cardinality(ErrorLines(SOURCES[k].id)) =
            (IF feeds[k].kind = "raise" THEN 1 ELSE 0)
    /\ Fetched => Len(feeds) = Len(SOURCES)

\* Three sources, the second raises, the first and the third give records.
C3_Witness ==
    /\ f_pc = "exit"
    /\ feeds[1].kind = "feed" /\ feeds[2].kind = "raise" /\ feeds[3].kind = "feed"
    /\ Contribution(1) # <<>> /\ Contribution(3) # <<>>
    /\ Len(all_items) = Len(Contribution(1)) + Len(Contribution(3))
    /\ all_items[1].source_id = 1
    /\ all_items[Len(all_items)].source_id = 3
    /\ Cardinality({j \in 1..Len(f_log) : f_log[j].tag = "error"}) = 1

\* C8: when no source returns data the normalisation run ends with a failing
\* exit status.
C8_NoDataExitsFailing ==
    (f_pc = "exit" /\ all_items = <<>>) => f_exit = "failure"

\* The records of the record set that come from source k, in order.
RecordsOf(k) == SelectSeq(all_items, LAMBDA it : it.source_id = SOURCES[k].id)

\* C10: the records a source contributes are at most its item limit
\* (max_items, 5 when absent) and are the records of the first entries of
\* its feed, in the feed's order.
C10_ItemLimit ==
    \A k \in 1..Len(feeds) :
        feeds[k].kind = "feed" =>
            LET recs == RecordsOf(k)
                n    == Len(feeds[k].entries)
                lim  == ItemLimit(SOURCES[k])
            IN  /\ Len(recs) <= lim
                /\ Len(recs) = (IF n <= lim THEN n ELSE lim)
                /\ \A j \in 1..Len(recs) :
                     recs[j] = ItemOf(SOURCES[k], feeds[k].entries[j])

\* A source with max_items 1 whose feed has two entries gives one record; a
\* source without max_items whose feed has six gives five.
C10_Witness ==
    /\ f_pc = "exit"
    /\ "max_items" \in DOMAIN SOURCES[1] /\ SOURCES[1].max_items = 1
    /\ feeds[1].kind = "feed" /\ Len(feeds[1].entries) = 2
    /\ Len(RecordsOf(1)) = 1
    /\ SOURCES[2].type = "rss" /\ "max_items" \notin DOMAIN SOURCES[2]
    /\ feeds[2].kind = "feed" /\ Len(feeds[2].entries) = DefaultMaxItems + 1
    /\ Len(RecordsOf(2)) = DefaultMaxItems

\* ---- the summary of a record ----

\* A tag the pattern <[^>]+> would still match: "<", at least one character
\* other than ">", then ">".
HasTag(s) ==
    \E i \in 1..Len(s) :
        /\ s[i] = "<"
        /\ NextAt(s, i + 1, {">"}) >= i + 2

\* No tag, single spaces as the only whitespace, none at either end.
IsCleanText(s) ==
    /\ ~HasTag(s)
    /\ \A i \in 1..Len(s) : IsSpace(s[i]) => s[i] = " "
    /\ \A i \in 1..(Len(s) - 1) : ~(IsSpace(s[i]) /\ IsSpace(s[i + 1]))
    /\ s # <<>> => ~IsSpace(s[1]) /\ ~IsSpace(s[Len(s)])

\* C9: the summary of a record is the cleaned text (tags stripped,
\* whitespace collapsed, trimmed) of the entry's summary or description: as
\* it is when it has at most 400 characters, else its first 400 characters
\* followed by "...". At exactly 400 it is unchanged, at 401 it is cut.
C9_SummaryCap ==
    s_pc = "done" =>
        LET clean == strip_html(RawSummary(s_entry))
        IN  /\ IsCleanText(clean)
            /\ Len(clean) <= SummaryCap => s_item.summary = clean
            /\ Len(clean) > SummaryCap =>
                 /\ Len(s_item.summary) = SummaryCap + 3
                 /\ SubSeq(s_item.summary, 1, SummaryCap) = SubSeq(clean, 1, SummaryCap)
                 /\ SubSeq(s_item.summary, SummaryCap + 1, SummaryCap + 3) = Ellipsis

\* A raw summary with a tag whose cleaned text has 401 characters.
C9_Witness ==
    /\ s_pc = "done"
    /\ HasTag(RawSummary(s_entry))
    /\ Len(strip_html(RawSummary(s_entry))) = SummaryCap + 1
    /\ Len(s_item.summary) = SummaryCap + 3

\* A raw summary with a tag whose cleaned text has exactly 400 characters.
C9_WitnessAtCap ==
    /\ s_pc = "done"
    /\ HasTag(RawSummary(s_entry))
    /\ Len(strip_html(RawSummary(s_entry))) = SummaryCap
    /\ s_item.summary = strip_html(RawSummary(s_entry))

\* ---- the analysis run and the aggregation ----

TitleOf(k) == items[k].title

DistinctTitles ==
    \A j, k \in 1..Len(items) : j # k => TitleOf(j) # TitleOf(k)

\* The artifact directory holds an artifact of a record titled t.
HasArtifactFor(t) == \E p \in DOMAIN store : store[p].record_title = t

\* C4: a generation failure on one record is caught by the driver loop and
\* the loop goes on: when the analysis program has ended, every record whose
\* own request did not fail has been analysed and its artifact saved.
C4_FailureIsolatedPerItem ==
    (d_pc \in {"done", "crashed"} /\ r_snapshot.exists) =>
        \A k \in 1..Len(items) : k \notin d_failed => k \in d_saved

\* C5: for every record whose artifact save_report stored, the path
\* load_analysis_content computes from the title is the path save_report
\* computed, and the aggregator does not give the placeholder for it.
C5_ReaderFindsSavedArtifact ==
    v_pc = "rendered" =>
        \A k \in d_saved :
            /\ ReaderPath(TitleOf(k)) = WriterPath(TitleOf(k))
            /\ enriched[k].analysis # Placeholder

\* C6: after the analysis stage has run over a snapshot with pairwise
\* distinct titles, no two records were written to the same path and the
\* artifact of every record holds that record's own analysis.
C6_OneArtifactPerRecord ==
    (d_pc = "done" /\ DistinctTitles) =>
        /\ \A j, k \in 1..Len(items) :
             j # k => WriterPath(TitleOf(j)) # WriterPath(TitleOf(k))
        /\ \A k \in 1..Len(items) :
             /\ WriterPath(TitleOf(k)) \in DOMAIN store
             /\ store[WriterPath(TitleOf(k))] =
                   [record_title |-> TitleOf(k), report_text |-> ReportOf(k)]

\* C7: the aggregator gives one display tuple per record, in record order; a
\* record with no artifact in the store gets the placeholder, and an artifact
\* of a title that no record bears is not used: an analysis shown for a
\* record is the rendering of an artifact of that record's title.
C7_AggregatorUsesOwnArtifacts ==
    v_pc = "rendered" =>
        /\ Len(enriched) = Len(items)
        /\ \A k \in 1..Len(items) :
             /\ enriched[k].title = TitleOf(k)
             /\ enriched[k].link = items[k].link
             /\ ~HasArtifactFor(TitleOf(k)) => enriched[k].analysis = Placeholder
             /\ enriched[k].analysis # Placeholder =>
                  \E p \in DOMAIN store :
                     /\ store[p].record_title = TitleOf(k)
                     /\ enriched[k].analysis = Markdown(store[p].report_text)

\* What the aggregator does guarantee: one tuple per record, in record
\* order, whose analysis is decided by the file at the path the reader
\* computes from the title alone.
AggregatorReadsByReaderPath ==
    v_pc = "rendered" =>
        /\ Len(enriched) = Len(items)
        /\ \A k \in 1..Len(items) :
             /\ enriched[k].title = TitleOf(k)
             /\ enriched[k].analysis =
                  (IF ReaderPath(TitleOf(k)) \in DOMAIN store
                   THEN Markdown(store[ReaderPath(TitleOf(k))].report_text)
                   ELSE Placeholder)

\* The missing snapshot is fatal to both programs that read it.
MissingSnapshotIsFatal ==
    /\ (v_pc # "idle" /\ ~r_snapshot.exists) => v_exit = "failure"
    /\ (d_pc # "start" /\ ~r_snapshot.exists) => d_exit = "failure"

=============================================================================
